---- MODULE Spec2Model ----
(***************************************************************************)
(* WanderMap: the storage adapter (src/services/storage.ts) and the        *)
(* application coordinator (src/App.tsx) as a state machine.               *)
(*                                                                         *)
(* JavaScript runs one task at a time.  An async handler runs up to its    *)
(* first await, the awaited adapter call is answered later (after a        *)
(* network round trip when Supabase is configured, in a microtask when it  *)
(* is not), and the rest of the handler runs then.  A call in flight is an *)
(* element of `calls`; a call whose promise has settled without a network  *)
(* round trip is "resolved" and its continuation runs before any other     *)
(* event (microtasks run before the next task).                            *)
(***************************************************************************)
EXTENDS Integers, Sequences, FiniteSets, TLC

\* ------------------------------------------------------------------ bounds
\* Number of data operations (refetches, saves, deletes) a run starts after
\* the fetch at mount.
MaxOps == 2
\* Number of adapter calls in flight at once.
MaxCalls == 2

\* ------------------------------------------------------- JavaScript values
\* A JavaScript value held in lat / lng: a finite number, NaN, an infinity,
\* or null (what JSON makes of NaN and of the infinities).
Num(n) == [t |-> "number", v |-> n]
NaN == [t |-> "NaN", v |-> 0]
Infinity == [t |-> "Infinity", v |-> 0]
Null == [t |-> "null", v |-> 0]

\* typeof x === 'number'
typeofNumber(x) == x.t \in {"number", "NaN", "Infinity"}
\* isNaN(x), for x a number
isNaN(x) == x.t = "NaN"
\* Number.isFinite(x)
isFinite(x) == x.t = "number"

\* The id of a record that has none (missing or empty: falsy in JavaScript).
NoId == 0

\* The coordinates a map interaction may hand to the coordinator.
Positions ==
  { [lat |-> Num(1), lng |-> Num(1)],
    [lat |-> NaN, lng |-> Num(1)] }

\* The text a user may type as the location name.
Names == {"A", "B"}

\* A Memory (types.ts) is a record [id, lat, lng, locationName, createdAt]:
\* description, photos and date travel with locationName through every
\* operation (they are the editor's `data`), and are not modelled apart from
\* it.

\* A validity check that forgets the id.
isValidMemoryNoId(m) ==
  /\ typeofNumber(m.lat) /\ ~isNaN(m.lat)
  /\ typeofNumber(m.lng) /\ ~isNaN(m.lng)

\* isValidMemory: m && typeof m.lat === 'number' && !isNaN(m.lat) && ... && m.id
isValidMemory(m) ==
  /\ typeofNumber(m.lat) /\ ~isNaN(m.lat)
  /\ typeofNumber(m.lng) /\ ~isNaN(m.lng)
  /\ m.id # NoId

\* ------------------------------------------------------------ sequences
RECURSIVE SelectSeqBy(_, _)
\* Array.prototype.filter, with the predicate given as the set it accepts.
SelectSeqBy(s, Keep) ==
  IF s = <<>> THEN <<>>
  ELSE IF Head(s) \in Keep THEN <<Head(s)>> \o SelectSeqBy(Tail(s), Keep)
       ELSE SelectSeqBy(Tail(s), Keep)

Range(s) == {s[i] : i \in DOMAIN s}

RemoveAt(s, i) == SubSeq(s, 1, i - 1) \o SubSeq(s, i + 1, Len(s))

Ids(s) == {s[i].id : i \in DOMAIN s}

\* ------------------------------------------------------------------ JSON
\* JSON.stringify writes NaN and the infinities as null; JSON.parse reads
\* null back.
JsonNumber(x) == IF isFinite(x) THEN x ELSE Null

JsonMemory(m) == [m EXCEPT !.lat = JsonNumber(m.lat), !.lng = JsonNumber(m.lng)]

\* JSON.parse(JSON.stringify(memories))
JsonRoundTrip(s) == [i \in DOMAIN s |-> JsonMemory(s[i])]

\* ------------------------------------------------------------------ state
VARIABLES
  configured,        \* storage.ts `supabase` is a client (TRUE) or null (FALSE)
  remote,            \* rows of the Supabase table "memories"
  blob,              \* localStorage[LOCAL_STORAGE_KEY]
  calls,             \* adapter calls in flight, with who awaits each
  notifs,            \* realtime notifications not yet delivered
  nextId,            \* generateId() / Date.now(): the next fresh stamp
  started,           \* data operations started so far
  memories,          \* App state
  viewState,
  isLoading,
  isAuthenticated,
  isLoggingIn,
  showAuthModal,
  showEditorModal,
  editorData,
  isPickingLocation,
  pointer,           \* where on the map the pointer or the dragged marker is
  isEditingPosition, \* MemoryDetail state
  newPosition,
  searchQuery,       \* App state: the text of the search box
  last               \* the handler step that ran last, and what it saw

store == <<configured, remote, blob, notifs>>
app == <<memories, viewState, isLoading, isAuthenticated, isLoggingIn,
         showAuthModal, showEditorModal, editorData, isPickingLocation>>
detail == <<pointer, isEditingPosition, newPosition, searchQuery>>
vars == <<configured, remote, blob, calls, notifs, nextId, started, memories,
          viewState, isLoading, isAuthenticated, isLoggingIn, showAuthModal,
          showEditorModal, editorData, isPickingLocation, pointer,
          isEditingPosition, newPosition, searchQuery, last>>

\* newPosition: null, or { lat, lng }
NoPosition == [isNull |-> TRUE, lat |-> Null, lng |-> Null]
PositionOf(lat, lng) == [isNull |-> FALSE, lat |-> lat, lng |-> lng]

\* MemoryDetail leaves the page: its state is gone, and the next one mounts
\* with useState(false), useState(null).
Unmounted ==
  /\ isEditingPosition' = FALSE
  /\ newPosition' = NoPosition
  /\ UNCHANGED <<pointer, searchQuery>>

\* MemoryDetail as it mounts, and the pointer at rest.
DetailIdle ==
  /\ pointer = [lat |-> Num(0), lng |-> Num(0)]
  /\ searchQuery = <<>>
  /\ isEditingPosition = FALSE
  /\ newPosition = NoPosition

\* ------------------------------------------------------ local fallback store
\* localStorage holds no item, an item that is a JSON array, an item that
\* parses to something else, or an item that does not parse.
AbsentBlob == [kind |-> "absent", items |-> <<>>]
ArrayBlob(items) == [kind |-> "array", items |-> items]
OtherBlob == [kind |-> "other", items |-> <<>>]
UnparsableBlob == [kind |-> "unparsable", items |-> <<>>]

\* getLocalMemories: [] unless the item parses to an array; then its valid
\* elements, in the array's order.
getLocalMemories(b) ==
  IF b.kind = "array"
  THEN SelectSeqBy(b.items, {m \in Range(b.items) : isValidMemory(m)})
  ELSE <<>>

\* localStorage.setItem either stores the item or throws (the quota is
\* exceeded, or storage is unavailable).
WriteOutcomes == {"ok", "quota", "other"}

\* saveLocalMemories: the item after the call; a throwing setItem is caught
\* and leaves the item as it was.
saveLocalMemories(b, mems, w) ==
  IF w = "ok" THEN ArrayBlob(JsonRoundTrip(mems)) ELSE b

\* A catch block with one message for every failure.
saveLocalAlertGeneric(w) ==
  IF w = "ok" THEN "none" ELSE "local save failed"

\* saveLocalMemories: what the catch block alerts.
saveLocalAlert(w) ==
  CASE w = "ok" -> "none"
    [] w = "quota" -> "storage full"
    [] OTHER -> "local save failed"

\* ------------------------------------------------------------ remote store
RECURSIVE SortDesc(_)
\* .order('createdAt', { ascending: false }) over the table's rows
SortDesc(S) ==
  IF S = {} THEN <<>>
  ELSE LET m == CHOOSE x \in S : \A y \in S : y.createdAt <= x.createdAt
       IN <<m>> \o SortDesc(S \ {m})

\* .insert([memory]): the row as the request body carries it
RemoteInsert(rows, m) == rows \cup {JsonMemory(m)}

\* .update(memory).eq('id', memory.id)
RemoteUpdate(rows, m) ==
  {IF r.id = m.id THEN JsonMemory(m) ELSE r : r \in rows}

\* .delete().eq('id', id)
RemoteDelete(rows, id) == {r \in rows : r.id # id}

\* What the client library hands back: { error: null }, { error }, or a
\* rejected promise.
Answers == {"ok", "error", "throw"}

\* ----------------------------------------------------------- adapter calls
NoMem == [id |-> NoId, lat |-> Null, lng |-> Null, locationName |-> "",
          createdAt |-> 0]
OnlyId(id) == [NoMem EXCEPT !.id = id]

\* What an adapter function returns: undefined (Promise<void>), a boolean,
\* a list of records, or a rejection.  NoRet: the promise is still pending.
NoRet == [kind |-> "pending", b |-> FALSE, list |-> <<>>]
RetVoid == [kind |-> "undefined", b |-> FALSE, list |-> <<>>]
RetBool(b) == [kind |-> "boolean", b |-> b, list |-> <<>>]
RetList(l) == [kind |-> "list", b |-> FALSE, list |-> l]
RetThrow == [kind |-> "throw", b |-> FALSE, list |-> <<>>]

\* A call in flight: the adapter function, its argument, the handler that
\* awaits it (k), where it is ("sent": the request is on its way; "replied":
\* the remote has answered with `answer` and `data`; "resolved": the promise
\* has settled with `ret`), and what it alerted.
NewCall(fn, k, arg, phase, ret, alert) ==
  [fn |-> fn, k |-> k, arg |-> arg, phase |-> phase, ret |-> ret,
   alert |-> alert, answer |-> "none", data |-> <<>>]

NoCall == NewCall("none", "none", NoMem, "none", NoRet, "none")

\* A settled promise's continuation is a microtask: it runs before any other
\* event is handled.
MicrotaskPending == \E i \in DOMAIN calls : calls[i].phase = "resolved"

\* getMemories up to its return or its first await
getMemories(k) ==
  /\ calls' = Append(calls,
       IF configured
       THEN NewCall("getMemories", k, NoMem, "sent", NoRet, "none")
       ELSE NewCall("getMemories", k, NoMem, "resolved",
                    RetList(getLocalMemories(blob)), "none"))
  /\ blob' = blob

\* addMemory up to its return or its first await
addMemory(memory, k) ==
  IF ~isValidMemory(memory)
  THEN /\ calls' = Append(calls,
            NewCall("addMemory", k, memory, "resolved", RetVoid, "none"))
       /\ blob' = blob
  ELSE IF configured
  THEN /\ calls' = Append(calls,
            NewCall("addMemory", k, memory, "sent", NoRet, "none"))
       /\ blob' = blob
  ELSE \E w \in WriteOutcomes :
       /\ blob' = saveLocalMemories(blob, getLocalMemories(blob) \o <<memory>>, w)
       /\ calls' = Append(calls,
            NewCall("addMemory", k, memory, "resolved", RetVoid,
                    saveLocalAlert(w)))

\* getLocalMemories().map(m => m.id === memory.id ? memory : m)
ReplaceById(s, memory) ==
  [i \in DOMAIN s |-> IF s[i].id = memory.id THEN memory ELSE s[i]]

\* updateMemory up to its return or its first await
updateMemory(memory, k) ==
  IF ~isValidMemory(memory)
  THEN /\ calls' = Append(calls,
            NewCall("updateMemory", k, memory, "resolved", RetVoid, "none"))
       /\ blob' = blob
  ELSE IF configured
  THEN /\ calls' = Append(calls,
            NewCall("updateMemory", k, memory, "sent", NoRet, "none"))
       /\ blob' = blob
  ELSE \E w \in WriteOutcomes :
       /\ blob' = saveLocalMemories(blob,
                     ReplaceById(getLocalMemories(blob), memory), w)
       /\ calls' = Append(calls,
            NewCall("updateMemory", k, memory, "resolved", RetVoid,
                    saveLocalAlert(w)))

\* A filter that keeps every record.
WithoutIdKeepsAll(s, id) == s

\* getLocalMemories().filter(m => m.id !== id)
WithoutId(s, id) == SelectSeqBy(s, {m \in Range(s) : m.id # id})

\* deleteMemory, local branch: what it returns after saveLocalMemories
deleteLocalResult(w) == TRUE

\* deleteMemory up to its return or its first await
deleteMemory(id, k) ==
  IF configured
  THEN /\ calls' = Append(calls,
            NewCall("deleteMemory", k, OnlyId(id), "sent", NoRet, "none"))
       /\ blob' = blob
  ELSE \E w \in WriteOutcomes :
       /\ blob' = saveLocalMemories(blob, WithoutId(getLocalMemories(blob), id), w)
       /\ calls' = Append(calls,
            NewCall("deleteMemory", k, OnlyId(id), "resolved",
                    RetBool(deleteLocalResult(w)), saveLocalAlert(w)))

\* ------------------------------------------------------------ authentication
\* constants.ts LOCAL_DEV_PASSWORD, and some other password
Passwords == {"travel", "wrong"}
LOCAL_DEV_PASSWORD == "travel"

\* login up to its return or its first await
login(password, k) ==
  /\ calls' = Append(calls,
       IF configured
       THEN NewCall("login", k, NoMem, "sent", NoRet, "none")
       ELSE NewCall("login", k, NoMem, "resolved",
                    RetBool(password = LOCAL_DEV_PASSWORD), "none"))
  /\ blob' = blob

\* login after its await: { success: !error }; a rejection is caught
loginReturn(c) == RetBool(c.answer = "ok")

\* logout up to its return or its await of signOut
logout(k) ==
  /\ calls' = Append(calls,
       IF configured
       THEN NewCall("logout", k, NoMem, "sent", NoRet, "none")
       ELSE NewCall("logout", k, NoMem, "resolved", RetVoid, "none"))
  /\ blob' = blob

\* checkSession up to its return or its await of getSession
checkSession(k) ==
  NewCall("checkSession", k, NoMem,
          IF configured THEN "sent" ELSE "resolved",
          IF configured THEN NoRet ELSE RetBool(FALSE), "none")

\* checkSession after its await: !!data.session; the answer "ok" carries a
\* session, the answer "error" carries none.
checkSessionReturn(c) == RetBool(c.answer = "ok")

\* ------------------------------------------------------------- the remote
\* The remote's effect on the table when it answers call c with `a`.
ServeRows(c, a) ==
  IF a # "ok" THEN remote
  ELSE CASE c.fn = "addMemory" -> RemoteInsert(remote, c.arg)
         [] c.fn = "updateMemory" -> RemoteUpdate(remote, c.arg)
         [] c.fn = "deleteMemory" -> RemoteDelete(remote, c.arg.id)
         [] OTHER -> remote

\* The primary key admits no second row with an id.
Servable(c, a) ==
  (c.fn = "addMemory" /\ a = "ok") => c.arg.id \notin {r.id : r \in remote}

\* The step that ran last was none of the handlers' completions.
Other == [op |-> "other", c |-> NoCall]

\* The remote handles the request of call i: it answers, and a change of the
\* table is notified to every subscriber (this client included).
Serve(i) ==
  /\ ~MicrotaskPending
  /\ calls[i].phase = "sent"
  /\ \E a \in Answers :
       /\ Servable(calls[i], a)
       /\ remote' = ServeRows(calls[i], a)
       /\ notifs' = IF remote' # remote THEN notifs + 1 ELSE notifs
       /\ calls' = [calls EXCEPT ![i].phase = "replied", ![i].answer = a,
                      ![i].data = IF calls[i].fn = "getMemories" /\ a = "ok"
                                  THEN SortDesc(remote) ELSE <<>>]
  /\ last' = Other
  /\ UNCHANGED <<configured, blob, nextId, started, app>>
  /\ UNCHANGED detail

\* getMemories after its await
getMemoriesReturn(c) ==
  IF c.answer = "error" THEN RetList(getLocalMemories(blob))
  ELSE RetList(SelectSeqBy(c.data, {m \in Range(c.data) : isValidMemory(m)}))

\* A write that returns whether the remote accepted it.
writeReturnReported(c) == RetBool(c.answer # "error")

\* addMemory / updateMemory after the await: the error is logged and alerted;
\* nothing is returned either way.
writeReturn(c) == RetVoid

\* What the adapter function alerts after its await.
remoteAlert(c) ==
  IF c.answer # "error" THEN "none"
  ELSE CASE c.fn = "addMemory" -> "Failed to save to cloud database"
         [] c.fn = "updateMemory" -> "Failed to update cloud database"
         [] c.fn = "deleteMemory" -> "Failed to delete from cloud"
         [] OTHER -> "none"

\* deleteMemory after its await
deleteMemoryReturn(c) == RetBool(c.answer # "error")

\* Call c as its caller sees it when the awaited promise settles: a call that
\* went to the remote runs the rest of the adapter function on the answer.
Returned(c) ==
  IF c.phase = "resolved" THEN c
  ELSE [c EXCEPT
          !.phase = "resolved",
          !.data = <<>>,
          !.alert = remoteAlert(c),
          !.ret = IF c.answer = "throw" /\ c.fn # "login" THEN RetThrow
                  ELSE CASE c.fn = "getMemories" -> getMemoriesReturn(c)
                         [] c.fn = "deleteMemory" -> deleteMemoryReturn(c)
                         [] c.fn = "login" -> loginReturn(c)
                         [] c.fn = "checkSession" -> checkSessionReturn(c)
                         [] OTHER -> writeReturn(c)]

\* Call i can be continued by handler k: its promise has settled, or the
\* remote's answer is there to arrive (an event like any other).
Settles(i, k) ==
  /\ calls[i].k = k
  /\ \/ calls[i].phase = "resolved"
     \/ calls[i].phase = "replied" /\ ~MicrotaskPending

\* ------------------------------------------------------------- coordinator
MapView == [type |-> "MAP", memoryId |-> NoId]
DetailView(id) == [type |-> "DETAIL", memoryId |-> id]

\* editorData: null, or { lat, lng, initial? }
NoEditor == [isNull |-> TRUE, lat |-> Null, lng |-> Null,
             hasInitial |-> FALSE, initial |-> NoMem]
EditorOf(lat, lng, hasInitial, initial) ==
  [isNull |-> FALSE, lat |-> lat, lng |-> lng,
   hasInitial |-> hasInitial, initial |-> initial]

\* memories.find(m => m.id === id), when there is one
Find(s, id) ==
  s[CHOOSE i \in DOMAIN s : s[i].id = id /\ \A j \in 1..(i - 1) : s[j].id # id]

\* What the page lets the user reach: the map and its markers lie under the
\* detail overlay and under an open modal; the detail view lies under an open
\* modal.
NoModal == ~showAuthModal /\ ~showEditorModal
MapReachable == viewState.type = "MAP" /\ NoModal
DetailReachable ==
  /\ viewState.type = "DETAIL"
  /\ NoModal
  /\ viewState.memoryId \in Ids(memories)
EditorReachable == showEditorModal /\ ~editorData.isNull

CanCall == Len(calls) < MaxCalls
CanStart == CanCall /\ started < MaxOps

\* fetchMemories up to its await
fetchMemoriesStart ==
  /\ isLoading' = TRUE
  /\ getMemories("fetchMemories")

\* A refetch that keeps the records of the previous set the result lacks.
fetchMemoriesMerge(prev, c) ==
  c.ret.list \o SelectSeqBy(prev, {m \in Range(prev) : m.id \notin Ids(c.ret.list)})

\* fetchMemories after its await: the list handed to setMemories
fetchMemoriesResult(prev, c) == c.ret.list

\* The realtime channel delivers a notification: the subscriber's callback
\* calls fetchMemories.
Notified ==
  /\ ~MicrotaskPending
  /\ notifs > 0
  /\ CanStart
  /\ notifs' = notifs - 1
  /\ started' = started + 1
  /\ fetchMemoriesStart
  /\ last' = Other
  /\ UNCHANGED <<configured, remote, nextId, memories, viewState,
                 isAuthenticated, isLoggingIn, showAuthModal, showEditorModal,
                 editorData, isPickingLocation>>
  /\ UNCHANGED detail

\* The rest of fetchMemories, once getMemories has returned; a rejection
\* leaves the handler at the await.
FetchDone(i) ==
  /\ Settles(i, "fetchMemories")
  /\ calls' = RemoveAt(calls, i)
  /\ LET c == Returned(calls[i])
     IN /\ IF c.ret.kind = "throw"
           THEN UNCHANGED <<memories, isLoading>>
           ELSE /\ memories' = fetchMemoriesResult(memories, c)
                /\ isLoading' = FALSE
        /\ last' = [op |-> "FetchDone", c |-> c]
  /\ UNCHANGED <<store, nextId, started, viewState, isAuthenticated,
                 isLoggingIn, showAuthModal, showEditorModal, editorData,
                 isPickingLocation>>
  /\ UNCHANGED detail

\* The login button of the top bar.
OpenAuthModal ==
  /\ ~MicrotaskPending
  /\ ~isAuthenticated
  /\ MapReachable
  /\ showAuthModal' = TRUE
  /\ last' = Other
  /\ UNCHANGED <<store, calls, nextId, started, memories, viewState,
                 isLoading, isAuthenticated, isLoggingIn, showEditorModal,
                 editorData, isPickingLocation>>
  /\ UNCHANGED detail

\* handleLogin up to its await; the form is disabled while isLoggingIn.
HandleLogin ==
  /\ ~MicrotaskPending
  /\ showAuthModal
  /\ ~isLoggingIn
  /\ CanCall
  /\ isLoggingIn' = TRUE
  /\ \E password \in Passwords : login(password, "handleLogin")
  /\ last' = Other
  /\ UNCHANGED <<configured, remote, notifs, nextId, started, memories,
                 viewState, isLoading, isAuthenticated, showAuthModal,
                 showEditorModal, editorData, isPickingLocation>>
  /\ UNCHANGED detail

\* handleLogin after its await
LoginDone(i) ==
  /\ Settles(i, "handleLogin")
  /\ calls' = RemoveAt(calls, i)
  /\ isLoggingIn' = FALSE
  /\ LET c == Returned(calls[i])
     IN /\ IF c.ret.b
           THEN isAuthenticated' = TRUE /\ showAuthModal' = FALSE
           ELSE UNCHANGED <<isAuthenticated, showAuthModal>>
        /\ last' = [op |-> "LoginDone", c |-> c]
  /\ UNCHANGED <<store, nextId, started, memories, viewState, isLoading,
                 showEditorModal, editorData, isPickingLocation>>
  /\ UNCHANGED detail

\* handleMapClick(lat, lng)
handleMapClick(lat, lng) ==
  IF isAuthenticated
  THEN IF isPickingLocation /\ ~editorData.isNull
       THEN /\ editorData' = EditorOf(lat, lng,
                               editorData.hasInitial, editorData.initial)
            /\ isPickingLocation' = FALSE
            /\ showEditorModal' = TRUE
       ELSE /\ editorData' = EditorOf(lat, lng, FALSE, NoMem)
            /\ showEditorModal' = TRUE
            /\ UNCHANGED isPickingLocation
  ELSE UNCHANGED <<editorData, showEditorModal, isPickingLocation>>

\* A right click on the main map (MapEvents.contextmenu) at one of the
\* positions, longitude already wrapped: handleMapClick runs.
HandleMapClick ==
  /\ ~MicrotaskPending
  /\ MapReachable
  /\ \E pos \in Positions : handleMapClick(pos.lat, pos.lng)
  /\ last' = Other
  /\ UNCHANGED <<store, calls, nextId, started, memories, viewState,
                 isLoading, isAuthenticated, isLoggingIn, showAuthModal>>
  /\ UNCHANGED detail

\* handleRequestLocationChange: the editor's "change location" button
HandleRequestLocationChange ==
  /\ ~MicrotaskPending
  /\ EditorReachable
  /\ showEditorModal' = FALSE
  /\ isPickingLocation' = TRUE
  /\ last' = Other
  /\ UNCHANGED <<store, calls, nextId, started, memories, viewState,
                 isLoading, isAuthenticated, isLoggingIn, showAuthModal,
                 editorData>>
  /\ UNCHANGED detail

\* The markers MapWrapper draws: it skips a record whose lat or lng is not
\* a number (isValidLatLng).
isValidLatLng(lat, lng) ==
  typeofNumber(lat) /\ ~isNaN(lat) /\ typeofNumber(lng) /\ ~isNaN(lng)

\* handleOpenDetail: a click on a marker of the main map
HandleOpenDetail ==
  /\ ~MicrotaskPending
  /\ MapReachable
  /\ \E i \in DOMAIN memories :
       /\ isValidLatLng(memories[i].lat, memories[i].lng)
       /\ viewState' = DetailView(memories[i].id)
  /\ last' = Other
  /\ UNCHANGED <<store, calls, nextId, started, memories, isLoading,
                 isAuthenticated, isLoggingIn, showAuthModal, showEditorModal,
                 editorData, isPickingLocation>>
  /\ UNCHANGED detail

\* MemoryDetail onBack
DetailBack ==
  /\ ~MicrotaskPending
  /\ DetailReachable
  /\ viewState' = MapView
  /\ last' = Other
  /\ UNCHANGED <<store, calls, nextId, started, memories, isLoading,
                 isAuthenticated, isLoggingIn, showAuthModal, showEditorModal,
                 editorData, isPickingLocation>>
  /\ Unmounted

\* MemoryDetail onEdit(memory): the edit button, shown when authenticated
\* and the position is not being edited
DetailEdit ==
  /\ ~MicrotaskPending
  /\ DetailReachable
  /\ isAuthenticated
  /\ ~isEditingPosition
  /\ LET memory == Find(memories, viewState.memoryId)
     IN editorData' = EditorOf(memory.lat, memory.lng, TRUE, memory)
  /\ showEditorModal' = TRUE
  /\ last' = Other
  /\ UNCHANGED <<store, calls, nextId, started, memories, viewState,
                 isLoading, isAuthenticated, isLoggingIn, showAuthModal,
                 isPickingLocation>>
  /\ UNCHANGED detail

\* The editor's cancel button (onCancel)
EditorCancel ==
  /\ ~MicrotaskPending
  /\ EditorReachable
  /\ showEditorModal' = FALSE
  /\ isPickingLocation' = FALSE
  /\ last' = Other
  /\ UNCHANGED <<store, calls, nextId, started, memories, viewState,
                 isLoading, isAuthenticated, isLoggingIn, showAuthModal,
                 editorData>>
  /\ UNCHANGED detail

\* The editor modal's close button (Modal onClose)
EditorClose ==
  /\ ~MicrotaskPending
  /\ showEditorModal
  /\ showEditorModal' = FALSE
  /\ last' = Other
  /\ UNCHANGED <<store, calls, nextId, started, memories, viewState,
                 isLoading, isAuthenticated, isLoggingIn, showAuthModal,
                 editorData, isPickingLocation>>
  /\ UNCHANGED detail

\* a ?? b
Coalesce(a, b) == IF a.t = "null" THEN b ELSE a

\* MemoryEditor.handleSubmit: the data handed to onSave
SubmitData(name) ==
  [lat |-> IF editorData.hasInitial
           THEN Coalesce(editorData.initial.lat, editorData.lat)
           ELSE editorData.lat,
   lng |-> IF editorData.hasInitial
           THEN Coalesce(editorData.initial.lng, editorData.lng)
           ELSE editorData.lng,
   locationName |-> name]

\* A merge that stamps the record anew.
MergeEditRestamp(initial, data) ==
  [initial EXCEPT !.lat = data.lat, !.lng = data.lng,
                  !.locationName = data.locationName, !.createdAt = nextId]

\* { ...editorData.initial, ...data }
MergeEdit(initial, data) ==
  [initial EXCEPT !.lat = data.lat, !.lng = data.lng,
                  !.locationName = data.locationName]

\* createMemoryObject: a fresh id and the creation time
createMemoryObject(data) ==
  [id |-> nextId, lat |-> data.lat, lng |-> data.lng,
   locationName |-> data.locationName, createdAt |-> nextId]

\* handleSaveMemory up to its await (the editor's submit button)
HandleSaveMemory ==
  /\ ~MicrotaskPending
  /\ EditorReachable
  /\ CanStart
  /\ isLoading' = TRUE
  /\ started' = started + 1
  /\ \E name \in Names :
       IF editorData.hasInitial
       THEN /\ updateMemory(MergeEdit(editorData.initial, SubmitData(name)),
                            "handleSaveMemory")
            /\ UNCHANGED nextId
       ELSE /\ addMemory(createMemoryObject(SubmitData(name)),
                         "handleSaveMemory")
            /\ nextId' = nextId + 1
  /\ last' = Other
  /\ UNCHANGED <<configured, remote, notifs, memories, viewState,
                 isAuthenticated, isLoggingIn, showAuthModal, showEditorModal,
                 editorData, isPickingLocation>>
  /\ UNCHANGED detail

\* A save that leaves the in-memory set alone when the remote reported an
\* error.
saveMemoriesRollback(prev, c) ==
  IF c.answer = "error" THEN prev
  ELSE IF c.fn = "updateMemory"
       THEN [i \in DOMAIN prev |-> IF prev[i].id = c.arg.id THEN c.arg ELSE prev[i]]
       ELSE Append(prev, c.arg)

\* handleSaveMemory after its await: the in-memory set it leaves
saveMemoriesResult(prev, c) ==
  IF c.fn = "updateMemory" THEN ReplaceById(prev, c.arg)
  ELSE Append(prev, c.arg)

\* The rest of handleSaveMemory, once updateMemory / addMemory has returned;
\* a rejection leaves the handler at the await.
SaveDone(i) ==
  /\ Settles(i, "handleSaveMemory")
  /\ calls' = RemoveAt(calls, i)
  /\ LET c == Returned(calls[i])
     IN /\ IF c.ret.kind = "throw"
           THEN UNCHANGED <<memories, isLoading, showEditorModal, editorData>>
           ELSE /\ memories' = saveMemoriesResult(memories, c)
                /\ isLoading' = FALSE
                /\ showEditorModal' = FALSE
                /\ editorData' = NoEditor
        /\ last' = [op |-> "SaveDone", c |-> c]
  /\ UNCHANGED <<store, nextId, started, viewState, isAuthenticated,
                 isLoggingIn, showAuthModal, isPickingLocation>>
  /\ UNCHANGED detail

\* handleDeleteMemory up to its await (the detail view's delete button);
\* a declined confirm() ends the handler.
HandleDeleteMemory ==
  /\ ~MicrotaskPending
  /\ DetailReachable
  /\ isAuthenticated
  /\ ~isEditingPosition
  /\ \E confirmed \in BOOLEAN :
       IF confirmed
       THEN /\ CanStart
            /\ isLoading' = TRUE
            /\ started' = started + 1
            /\ deleteMemory(viewState.memoryId, "handleDeleteMemory")
            /\ last' = Other
       ELSE /\ UNCHANGED <<isLoading, calls, blob, started>>
            /\ last' = [op |-> "DeleteDeclined", c |-> NoCall]
  /\ UNCHANGED <<configured, remote, notifs, nextId, memories, viewState,
                 isAuthenticated, isLoggingIn, showAuthModal, showEditorModal,
                 editorData, isPickingLocation>>
  /\ UNCHANGED detail

\* A handler that removes the record whatever deleteMemory returned.
deleteAppliesAlways(ret) == TRUE

\* handleDeleteMemory: if (success)
deleteApplies(ret) == ret.kind = "boolean" /\ ret.b

\* The rest of handleDeleteMemory (try / catch / finally)
DeleteDone(i) ==
  /\ Settles(i, "handleDeleteMemory")
  /\ calls' = RemoveAt(calls, i)
  /\ LET c == Returned(calls[i])
     IN /\ IF deleteApplies(c.ret)
           THEN /\ memories' = WithoutId(memories, c.arg.id)
                /\ viewState' = MapView
                /\ Unmounted
           ELSE UNCHANGED <<memories, viewState, detail>>
        /\ last' = [op |-> "DeleteDone", c |-> c]
  /\ isLoading' = FALSE
  /\ UNCHANGED <<store, nextId, started, isAuthenticated, isLoggingIn,
                 showAuthModal, showEditorModal, editorData,
                 isPickingLocation>>

\* Another client deletes a row of the table.
OtherClientDelete ==
  /\ ~MicrotaskPending
  /\ configured
  /\ \E r \in remote : remote' = remote \ {r}
  /\ notifs' = notifs + 1
  /\ last' = Other
  /\ UNCHANGED <<configured, blob, calls, nextId, started, app>>
  /\ UNCHANGED detail

\* ---------------------------------------------------------- specification
\* A record an earlier session saved, and one an earlier session left in
\* localStorage only.
Seed == [id |-> 100, lat |-> Num(1), lng |-> Num(1), locationName |-> "A",
         createdAt |-> 0]
Stale == [Seed EXCEPT !.id = 101]

\* The page has mounted: the effect has called fetchMemories and subscribed.
Init ==
  /\ configured \in BOOLEAN
  /\ remote = IF configured THEN {Seed} ELSE {}
  /\ blob \in IF configured THEN {AbsentBlob, ArrayBlob(<<Stale>>)}
              ELSE {AbsentBlob, ArrayBlob(<<Seed>>)}
  /\ notifs = 0
  /\ nextId = 1
  /\ started = 0
  /\ calls = <<IF configured
               THEN NewCall("getMemories", "fetchMemories", NoMem, "sent",
                            NoRet, "none")
               ELSE NewCall("getMemories", "fetchMemories", NoMem, "resolved",
                            RetList(getLocalMemories(blob)), "none")>>
  /\ memories = <<>>
  /\ viewState = MapView
  /\ isLoading = TRUE
  /\ isAuthenticated = FALSE
  /\ isLoggingIn = FALSE
  /\ showAuthModal = FALSE
  /\ showEditorModal = FALSE
  /\ editorData = NoEditor
  /\ isPickingLocation = FALSE
  /\ last = Other
  /\ DetailIdle

Next ==
  \/ \E i \in DOMAIN calls : Serve(i)
  \/ Notified
  \/ \E i \in DOMAIN calls : FetchDone(i)
  \/ OpenAuthModal
  \/ HandleLogin
  \/ \E i \in DOMAIN calls : LoginDone(i)
  \/ HandleMapClick
  \/ HandleOpenDetail
  \/ DetailBack
  \/ DetailEdit
  \/ HandleSaveMemory
  \/ \E i \in DOMAIN calls : SaveDone(i)
  \/ HandleDeleteMemory
  \/ \E i \in DOMAIN calls : DeleteDone(i)
  \/ OtherClientDelete

Spec == Init /\ [][Next]_vars

\* --------------------------------------------- the adapter, called directly
\* A caller that awaits one adapter call after the other (a test of the
\* storage module): the records and ids it passes.
MaxTestCalls == 4
TestIds == {1, 2, NoId}
TestLats == {Num(1), NaN, Infinity}

TestMemory(id, lat, name) ==
  [id |-> id, lat |-> lat, lng |-> Num(1), locationName |-> name,
   createdAt |-> nextId]

CanTest == calls = <<>> /\ started < MaxTestCalls

TestGet ==
  /\ CanTest
  /\ getMemories("test")
  /\ started' = started + 1
  /\ last' = Other
  /\ UNCHANGED <<configured, remote, notifs, nextId, app>>
  /\ UNCHANGED detail

\* addMemory of a record stamped with the current time
TestAdd ==
  /\ CanTest
  /\ \E id \in TestIds, lat \in TestLats :
       addMemory(TestMemory(id, lat, "A"), "test")
  /\ nextId' = nextId + 1
  /\ started' = started + 1
  /\ last' = Other
  /\ UNCHANGED <<configured, remote, notifs, app>>
  /\ UNCHANGED detail

\* The records in either store, as getMemories would hand them out.
Stored == Range(getLocalMemories(blob)) \cup remote

\* updateMemory of a stored record with a field changed, or of a record that
\* is in no store
TestUpdate ==
  /\ CanTest
  /\ \E m \in Stored \cup {TestMemory(id, Num(1), "A") : id \in TestIds},
        lat \in TestLats :
       updateMemory([m EXCEPT !.lat = lat, !.locationName = "B"], "test")
  /\ started' = started + 1
  /\ last' = Other
  /\ UNCHANGED <<configured, remote, notifs, nextId, app>>
  /\ UNCHANGED detail

TestDelete ==
  /\ CanTest
  /\ \E id \in TestIds \cup {Seed.id} : deleteMemory(id, "test")
  /\ started' = started + 1
  /\ last' = Other
  /\ UNCHANGED <<configured, remote, notifs, nextId, app>>
  /\ UNCHANGED detail

\* The awaited call returns to the caller.
TestReturn(i) ==
  /\ Settles(i, "test")
  /\ calls' = RemoveAt(calls, i)
  /\ last' = [op |-> "Return", c |-> Returned(calls[i])]
  /\ UNCHANGED <<store, nextId, started, app>>
  /\ UNCHANGED detail

InitStore ==
  /\ configured \in BOOLEAN
  /\ remote = {}
  /\ blob \in {AbsentBlob, ArrayBlob(<<Seed>>)}
  /\ notifs = 0
  /\ nextId = 1
  /\ started = 0
  /\ calls = <<>>
  /\ memories = <<>>
  /\ viewState = MapView
  /\ isLoading = FALSE
  /\ isAuthenticated = FALSE
  /\ isLoggingIn = FALSE
  /\ showAuthModal = FALSE
  /\ showEditorModal = FALSE
  /\ editorData = NoEditor
  /\ isPickingLocation = FALSE
  /\ last = Other
  /\ DetailIdle

NextStore ==
  \/ TestGet
  \/ TestAdd
  \/ TestUpdate
  \/ TestDelete
  \/ \E i \in DOMAIN calls : Serve(i)
  \/ \E i \in DOMAIN calls : TestReturn(i)

SpecStore == InitStore /\ [][NextStore]_vars

\* ------------------------------------- the storage module of part_000
\* The repository's other storage module (src/unnamed/part_000), called
\* directly.  What JSON.parse gave that is not an array:
RetOther == [kind |-> "other", b |-> FALSE, list |-> <<>>]

\* part_000 getLocalMemories: data ? JSON.parse(data) : [], [] when parse
\* throws; the parsed value is returned as it is.
getLocalMemoriesPart000(b) ==
  CASE b.kind = "array" -> RetList(b.items)
    [] b.kind = "other" -> RetOther
    [] OTHER -> RetList(<<>>)

\* part_000: saveLocalMemories([...getLocalMemories(), memory]); spreading
\* what is not an array throws before anything is written.
backupPart000(b, memory, w) ==
  IF getLocalMemoriesPart000(b).kind = "list"
  THEN saveLocalMemories(b, getLocalMemoriesPart000(b).list \o <<memory>>, w)
  ELSE b

\* part_000 getMemories up to its return or its first await
getMemoriesPart000(k) ==
  /\ calls' = Append(calls,
       IF configured
       THEN NewCall("getMemories", k, NoMem, "sent", NoRet, "none")
       ELSE NewCall("getMemories", k, NoMem, "resolved",
                    getLocalMemoriesPart000(blob), "none"))
  /\ blob' = blob

\* part_000 addMemory up to its return or its first await
addMemoryPart000(memory, k) ==
  IF configured
  THEN /\ calls' = Append(calls,
            NewCall("addMemory", k, memory, "sent", NoRet, "none"))
       /\ blob' = blob
  ELSE \E w \in WriteOutcomes :
       /\ blob' = backupPart000(blob, memory, w)
       /\ calls' = Append(calls,
            NewCall("addMemory", k, memory, "resolved",
                    IF getLocalMemoriesPart000(blob).kind = "list"
                    THEN RetVoid ELSE RetThrow,
                    IF getLocalMemoriesPart000(blob).kind = "list"
                    THEN saveLocalAlert(w) ELSE "none"))

\* part_000 getMemories after its await: data as Memory[] || []
getMemoriesReturnPart000(c) ==
  IF c.answer = "error" THEN getLocalMemoriesPart000(blob)
  ELSE RetList(c.data)

\* A part_000 call as its caller sees it when the awaited promise settles.
ReturnedPart000(c) ==
  IF c.phase = "resolved" THEN c
  ELSE [c EXCEPT
          !.phase = "resolved",
          !.data = <<>>,
          !.alert = IF c.fn = "addMemory" /\ c.answer = "error"
                    THEN "Failed to save to cloud database. Attempting local backup."
                    ELSE "none",
          !.ret = IF c.answer = "throw" THEN RetThrow
                  ELSE IF c.fn = "getMemories" THEN getMemoriesReturnPart000(c)
                  ELSE IF c.answer = "error"
                          /\ getLocalMemoriesPart000(blob).kind # "list"
                       THEN RetThrow
                  ELSE RetVoid]

\* Number of calls a run makes of the part_000 module.
MaxPart000Calls == 3
CanTestPart000 == calls = <<>> /\ started < MaxPart000Calls

\* What localStorage may hold when the module is loaded: nothing, text that
\* does not parse, JSON that is no array, and arrays with elements that are
\* no valid records (lat null, id missing).
TestBlobs ==
  { AbsentBlob, UnparsableBlob, OtherBlob,
    ArrayBlob(<<Seed>>),
    ArrayBlob(<<[Seed EXCEPT !.lat = Null], Seed>>),
    ArrayBlob(<<Seed, [Seed EXCEPT !.id = NoId]>>) }

TestGetPart000 ==
  /\ CanTestPart000
  /\ getMemoriesPart000("part_000")
  /\ started' = started + 1
  /\ last' = Other
  /\ UNCHANGED <<configured, remote, notifs, nextId, app>>
  /\ UNCHANGED detail

TestAddPart000 ==
  /\ CanTestPart000
  /\ \E id \in TestIds, lat \in TestLats :
       addMemoryPart000(TestMemory(id, lat, "A"), "part_000")
  /\ nextId' = nextId + 1
  /\ started' = started + 1
  /\ last' = Other
  /\ UNCHANGED <<configured, remote, notifs, app>>
  /\ UNCHANGED detail

\* The awaited call returns to the caller; addMemory, after a remote error,
\* has written its local backup.
TestReturnPart000(i) ==
  /\ Settles(i, "part_000")
  /\ calls' = RemoveAt(calls, i)
  /\ last' = [op |-> "Return", c |-> ReturnedPart000(calls[i])]
  /\ IF calls[i].phase = "replied" /\ calls[i].fn = "addMemory"
          /\ calls[i].answer = "error"
     THEN \E w \in WriteOutcomes :
            blob' = backupPart000(blob, calls[i].arg, w)
     ELSE blob' = blob
  /\ UNCHANGED <<configured, remote, notifs, nextId, started, app>>
  /\ UNCHANGED detail

NextPart000 ==
  \/ TestGetPart000
  \/ TestAddPart000
  \/ \E i \in DOMAIN calls : Serve(i)
  \/ \E i \in DOMAIN calls : TestReturnPart000(i)

InitPart000 ==
  /\ configured \in BOOLEAN
  /\ remote = {}
  /\ blob \in TestBlobs
  /\ notifs = 0
  /\ nextId = 1
  /\ started = 0
  /\ calls = <<>>
  /\ memories = <<>>
  /\ viewState = MapView
  /\ isLoading = FALSE
  /\ isAuthenticated = FALSE
  /\ isLoggingIn = FALSE
  /\ showAuthModal = FALSE
  /\ showEditorModal = FALSE
  /\ editorData = NoEditor
  /\ isPickingLocation = FALSE
  /\ last = Other
  /\ DetailIdle

SpecPart000 == InitPart000 /\ [][NextPart000]_vars

\* ------------------------------------------- the local store, called directly
\* getLocalMemories and saveLocalMemories of storage.ts on their own: the
\* length of the arrays written, and the records in them.
MaxRecords == 2

LocalRecords ==
  {[id |-> id, lat |-> lat, lng |-> Num(1), locationName |-> "A",
    createdAt |-> id] : id \in {1, 2}, lat \in TestLats}
    \cup {[Seed EXCEPT !.id = NoId]}

RECURSIVE SeqsUpTo(_, _)
\* The sequences over S of length at most n.
SeqsUpTo(S, n) ==
  IF n = 0 THEN {<<>>}
  ELSE SeqsUpTo(S, n - 1)
         \cup {Append(q, x) : q \in {t \in SeqsUpTo(S, n - 1) : Len(t) = n - 1},
                              x \in S}

\* saveLocalMemories(records); `last` keeps what was written and what the
\* call alerted.
LocalSave ==
  /\ \E records \in SeqsUpTo(LocalRecords, MaxRecords), w \in WriteOutcomes :
       /\ blob' = saveLocalMemories(blob, records, w)
       /\ last' = [op |-> "saveLocalMemories",
                   c |-> [NewCall("saveLocalMemories", "local", NoMem,
                                  "resolved", RetVoid, saveLocalAlert(w))
                            EXCEPT !.data = records]]
  /\ UNCHANGED <<configured, remote, calls, notifs, nextId, started, app>>
  /\ UNCHANGED detail

\* getLocalMemories(); `last` keeps the write it follows, if it follows one,
\* and what was read.
LocalGet ==
  /\ last.op # "getLocalMemories"
  /\ last' = [op |-> "getLocalMemories",
              c |-> [last.c EXCEPT !.ret = RetList(getLocalMemories(blob))]]
  /\ UNCHANGED <<store, calls, nextId, started, app>>
  /\ UNCHANGED detail

InitLocal ==
  /\ configured = FALSE
  /\ remote = {}
  /\ blob \in TestBlobs
  /\ notifs = 0
  /\ nextId = 1
  /\ started = 0
  /\ calls = <<>>
  /\ memories = <<>>
  /\ viewState = MapView
  /\ isLoading = FALSE
  /\ isAuthenticated = FALSE
  /\ isLoggingIn = FALSE
  /\ showAuthModal = FALSE
  /\ showEditorModal = FALSE
  /\ editorData = NoEditor
  /\ isPickingLocation = FALSE
  /\ last = Other
  /\ DetailIdle

NextLocal ==
  \/ LocalSave
  \/ LocalGet

SpecLocal == InitLocal /\ [][NextLocal]_vars

\* ------------------------------------------------- the map's two captures
\* Longitudes in whole degrees; the map scrolls without end, so a raw
\* longitude lies any number of world copies away.
MaxLng == 900
Lngs == (0 - MaxLng)..MaxLng

\* JavaScript's a % n for n > 0: the remainder has the sign of a.
jsRem(a, n) == IF a >= 0 THEN a % n ELSE 0 - ((0 - a) % n)

\* A normalization that leaves out the final shift.
dragendNoShift(lng) ==
  IF lng.t = "number"
  THEN Num(jsRem(jsRem(lng.v + 180, 360) + 360, 360))
  ELSE NaN

\* DraggableMarker.dragend: ((pos.lng + 180) % 360 + 360) % 360 - 180
dragendWrappedLng(lng) ==
  IF lng.t = "number"
  THEN Num(jsRem(jsRem(lng.v + 180, 360) + 360, 360) - 180)
  ELSE NaN

\* MapEvents.contextmenu: e.latlng.wrap().lng.  Leaflet wraps into
\* [-180, 180] and keeps the upper end: wrapNum(x, [-180, 180], true) is x
\* when x is 180, else ((x + 180) % 360 + 360) % 360 - 180.
contextmenuWrappedLng(lng) ==
  IF lng.t # "number" THEN NaN
  ELSE IF lng.v = 180 THEN lng
  ELSE Num(jsRem(jsRem(lng.v + 180, 360) + 360, 360) - 180)

\* What a capture leaves in `last`: the raw position of the event.
Captured(op, pos) ==
  [op |-> op, c |-> [NoCall EXCEPT !.arg = [NoMem EXCEPT !.lat = pos.lat,
                                                         !.lng = pos.lng]]]

\* MapEvents.contextmenu on the main map, at the pointer
Contextmenu ==
  /\ ~MicrotaskPending
  /\ MapReachable
  /\ handleMapClick(pointer.lat, contextmenuWrappedLng(pointer.lng))
  /\ last' = Captured("contextmenu", pointer)
  /\ UNCHANGED <<store, calls, nextId, started, memories, viewState,
                 isLoading, isAuthenticated, isLoggingIn, showAuthModal,
                 detail>>

\* The record MemoryDetail hands to its map: the record with the new
\* position, if there is one.
displayMemory(memory) ==
  IF newPosition.isNull THEN memory
  ELSE [memory EXCEPT !.lat = newPosition.lat, !.lng = newPosition.lng]

\* MemoryDetail.handlePositionChange(lat, lng)
handlePositionChange(lat, lng) == newPosition' = PositionOf(lat, lng)

\* DraggableMarker.dragend in the detail view's map: the marker is let go at
\* the pointer, or where it is displayed.
Dragend ==
  /\ ~MicrotaskPending
  /\ DetailReachable
  /\ isEditingPosition
  /\ LET shown == displayMemory(Find(memories, viewState.memoryId))
     IN /\ isValidLatLng(shown.lat, shown.lng)
        /\ \E pos \in {pointer, [lat |-> shown.lat, lng |-> shown.lng]} :
             /\ handlePositionChange(pos.lat, dragendWrappedLng(pos.lng))
             /\ last' = Captured("dragend", pos)
  /\ UNCHANGED <<store, calls, nextId, started, app, pointer, searchQuery,
                 isEditingPosition>>

\* The page with one record, the user logged in; the main map is open, or
\* the record's detail view with its marker draggable; the pointer anywhere.
InitMap ==
  /\ configured = FALSE
  /\ remote = {}
  /\ blob = ArrayBlob(<<Seed>>)
  /\ notifs = 0
  /\ nextId = 1
  /\ started = 0
  /\ calls = <<>>
  /\ memories = <<Seed>>
  /\ viewState \in {MapView, DetailView(Seed.id)}
  /\ isLoading = FALSE
  /\ isAuthenticated = TRUE
  /\ isLoggingIn = FALSE
  /\ showAuthModal = FALSE
  /\ showEditorModal = FALSE
  /\ editorData = NoEditor
  /\ isPickingLocation = FALSE
  /\ searchQuery = <<>>
  /\ pointer \in {[lat |-> Num(1), lng |-> Num(x)] : x \in Lngs}
  /\ isEditingPosition = (viewState.type = "DETAIL")
  /\ newPosition = NoPosition
  /\ last = Other

NextMap ==
  \/ Contextmenu
  \/ EditorCancel
  \/ Dragend

SpecMap == InitMap /\ [][NextMap]_vars

\* ------------------------------------------------ the coordinate checks
\* The three validity checks applied to a pair of coordinates: finite
\* numbers up to MaxCoord either way, NaN, an infinity, or no number at all.
MaxCoord == 3
Coords == {Num(v) : v \in (0 - MaxCoord)..MaxCoord} \cup {NaN, Infinity, Null}

\* MemoryDetail.isValidCoord: typeof n === 'number' && !isNaN(n)
isValidCoord(n) == typeofNumber(n) /\ ~isNaN(n)

\* What a check leaves in `last`: the pair it was given and its verdict.
Checked(op, pos, verdict) ==
  [op |-> op, c |-> [NoCall EXCEPT !.arg = [NoMem EXCEPT !.lat = pos.lat,
                                                        !.lng = pos.lng],
                                  !.ret = RetBool(verdict)]]

\* MapWrapper: isValidLatLng(memory.lat, memory.lng) decides whether the
\* marker is drawn.
CheckLatLng ==
  /\ last' = Checked("isValidLatLng", pointer,
                     isValidLatLng(pointer.lat, pointer.lng))
  /\ UNCHANGED <<store, calls, nextId, started, app, detail>>

\* storage: isValidMemory of a record with an id decides whether it is
\* persisted.
CheckMemory ==
  /\ last' = Checked("isValidMemory", pointer,
                     isValidMemory([Seed EXCEPT !.lat = pointer.lat,
                                                !.lng = pointer.lng]))
  /\ UNCHANGED <<store, calls, nextId, started, app, detail>>

\* MemoryDetail: isValidCoord(currentLat) && isValidCoord(currentLng) decides
\* whether the map is centred on the record.
CheckCoord ==
  /\ last' = Checked("isValidCoord", pointer,
                     isValidCoord(pointer.lat) /\ isValidCoord(pointer.lng))
  /\ UNCHANGED <<store, calls, nextId, started, app, detail>>

InitValid ==
  /\ configured = FALSE
  /\ remote = {}
  /\ blob = AbsentBlob
  /\ notifs = 0
  /\ nextId = 1
  /\ started = 0
  /\ calls = <<>>
  /\ memories = <<>>
  /\ viewState = MapView
  /\ isLoading = FALSE
  /\ isAuthenticated = FALSE
  /\ isLoggingIn = FALSE
  /\ showAuthModal = FALSE
  /\ showEditorModal = FALSE
  /\ editorData = NoEditor
  /\ isPickingLocation = FALSE
  /\ searchQuery = <<>>
  /\ pointer \in {[lat |-> a, lng |-> b] : a \in Coords, b \in Coords}
  /\ isEditingPosition = FALSE
  /\ newPosition = NoPosition
  /\ last = Other

NextValid ==
  \/ CheckLatLng
  \/ CheckMemory
  \/ CheckCoord

SpecValid == InitValid /\ [][NextValid]_vars

\* ------------------------------------------------ the change-location flow
\* A logged-in session showing the detail view of the stored record; the
\* user right-clicks the main map at one of a few places.
PickLats == {1, 2}
PickLngs == {1, 2}

InitEdit ==
  /\ configured \in BOOLEAN
  /\ remote = IF configured THEN {Seed} ELSE {}
  /\ blob = IF configured THEN AbsentBlob ELSE ArrayBlob(<<Seed>>)
  /\ notifs = 0
  /\ nextId = 1
  /\ started = 0
  /\ calls = <<>>
  /\ memories = <<Seed>>
  /\ viewState = DetailView(Seed.id)
  /\ isLoading = FALSE
  /\ isAuthenticated = TRUE
  /\ isLoggingIn = FALSE
  /\ showAuthModal = FALSE
  /\ showEditorModal = FALSE
  /\ editorData = NoEditor
  /\ isPickingLocation = FALSE
  /\ searchQuery = <<>>
  /\ pointer \in {[lat |-> Num(a), lng |-> Num(b)] :
                    a \in PickLats, b \in PickLngs}
  /\ isEditingPosition = FALSE
  /\ newPosition = NoPosition
  /\ last = Other

NextEdit ==
  \/ DetailEdit
  \/ HandleRequestLocationChange
  \/ DetailBack
  \/ HandleOpenDetail
  \/ Contextmenu
  \/ EditorCancel
  \/ EditorClose
  \/ HandleSaveMemory
  \/ \E i \in DOMAIN calls : Serve(i)
  \/ \E i \in DOMAIN calls : SaveDone(i)

SpecEdit == InitEdit /\ [][NextEdit]_vars

\* ------------------------------------------------------ the reposition flow
\* MemoryDetail.handleStartEditPosition: the "Adjust Position" button, shown
\* when authenticated, not editing, and onUpdatePosition is passed.
HandleStartEditPosition ==
  /\ ~MicrotaskPending
  /\ DetailReachable
  /\ isAuthenticated
  /\ ~isEditingPosition
  /\ isEditingPosition' = TRUE
  /\ newPosition' = NoPosition
  /\ last' = Other
  /\ UNCHANGED <<store, calls, nextId, started, app, pointer, searchQuery>>

\* A cancel that leaves the editing mode and keeps the new position.
handleCancelPositionKeeps ==
  /\ isEditingPosition' = FALSE
  /\ newPosition' = newPosition

\* MemoryDetail.handleCancelPosition
handleCancelPosition ==
  /\ isEditingPosition' = FALSE
  /\ newPosition' = NoPosition

\* The cancel button, shown while the position is edited
HandleCancelPosition ==
  /\ ~MicrotaskPending
  /\ DetailReachable
  /\ isEditingPosition
  /\ handleCancelPosition
  /\ last' = [op |-> "CancelPosition", c |-> NoCall]
  /\ UNCHANGED <<store, calls, nextId, started, app, pointer, searchQuery>>

\* The parent's onUpdatePosition(memory, newLat, newLng) up to its await: the
\* pair is merged into the record and the record persisted via update.
handleUpdatePosition(memory, newLat, newLng) ==
  updateMemory([memory EXCEPT !.lat = newLat, !.lng = newLng],
               "handleUpdatePosition")

\* MemoryDetail.handleConfirmPosition: the confirm button, disabled while
\* there is no new position.
HandleConfirmPosition ==
  /\ ~MicrotaskPending
  /\ DetailReachable
  /\ isEditingPosition
  /\ ~newPosition.isNull
  /\ CanStart
  /\ started' = started + 1
  /\ handleUpdatePosition(Find(memories, viewState.memoryId),
                          newPosition.lat, newPosition.lng)
  /\ isEditingPosition' = FALSE
  /\ newPosition' = NoPosition
  /\ last' = [op |-> "ConfirmPosition", c |-> calls'[Len(calls')]]
  /\ UNCHANGED <<configured, remote, notifs, nextId, app, pointer, searchQuery>>

\* The rest of the parent's onUpdatePosition, once updateMemory has returned:
\* the record of the in-memory set is the merged one.
UpdatePositionDone(i) ==
  /\ Settles(i, "handleUpdatePosition")
  /\ calls' = RemoveAt(calls, i)
  /\ LET c == Returned(calls[i])
     IN /\ IF c.ret.kind = "throw"
           THEN UNCHANGED memories
           ELSE memories' = ReplaceById(memories, c.arg)
        /\ last' = [op |-> "UpdatePositionDone", c |-> c]
  /\ UNCHANGED <<store, nextId, started, viewState, isLoading,
                 isAuthenticated, isLoggingIn, showAuthModal, showEditorModal,
                 editorData, isPickingLocation, detail>>

NextDetail ==
  \/ HandleStartEditPosition
  \/ Dragend
  \/ HandleCancelPosition
  \/ HandleConfirmPosition
  \/ DetailBack
  \/ HandleOpenDetail
  \/ \E i \in DOMAIN calls : Serve(i)
  \/ \E i \in DOMAIN calls : UpdatePositionDone(i)

SpecDetail == InitEdit /\ [][NextDetail]_vars

\* ------------------------------------------------ the authentication flow
\* A then-callback that stores whatever checkSession returned.
checkSessionAssign(prev, ret) == ret.b

\* storage.checkSession().then(isAuth => { if (isAuth) setIsAuthenticated(true) })
checkSessionResult(prev, ret) == IF ret.b THEN TRUE ELSE prev

\* The then-callback of the mount effect's checkSession; a rejection runs no
\* callback.
CheckSessionDone(i) ==
  /\ Settles(i, "checkSession")
  /\ calls' = RemoveAt(calls, i)
  /\ LET c == Returned(calls[i])
     IN /\ IF c.ret.kind = "throw"
           THEN UNCHANGED isAuthenticated
           ELSE isAuthenticated' = checkSessionResult(isAuthenticated, c.ret)
        /\ last' = [op |-> "CheckSessionDone", c |-> c]
  /\ UNCHANGED <<store, nextId, started, memories, viewState, isLoading,
                 isLoggingIn, showAuthModal, showEditorModal, editorData,
                 isPickingLocation, detail>>

\* The client's auth listener fires (sign-in or sign-out here or in another
\* tab, token refresh, expiry): the callback stores !!session.
AuthStateChange ==
  /\ ~MicrotaskPending
  /\ configured
  /\ \E session \in BOOLEAN :
       /\ isAuthenticated' = session
       /\ last' = [op |-> "AuthStateChange",
                   c |-> [NoCall EXCEPT !.ret = RetBool(session)]]
  /\ UNCHANGED <<store, calls, nextId, started, memories, viewState,
                 isLoading, isLoggingIn, showAuthModal, showEditorModal,
                 editorData, isPickingLocation, detail>>

\* handleLogout up to its await: the top bar's button, shown when
\* authenticated.
HandleLogout ==
  /\ ~MicrotaskPending
  /\ isAuthenticated
  /\ MapReachable
  /\ CanCall
  /\ logout("handleLogout")
  /\ last' = Other
  /\ UNCHANGED <<configured, remote, notifs, nextId, started, app, detail>>

\* handleLogout after its await; a rejection leaves the handler at the await.
LogoutDone(i) ==
  /\ Settles(i, "handleLogout")
  /\ calls' = RemoveAt(calls, i)
  /\ LET c == Returned(calls[i])
     IN /\ IF c.ret.kind = "throw"
           THEN UNCHANGED isAuthenticated
           ELSE isAuthenticated' = FALSE
        /\ last' = [op |-> "LogoutDone", c |-> c]
  /\ UNCHANGED <<store, nextId, started, memories, viewState, isLoading,
                 isLoggingIn, showAuthModal, showEditorModal, editorData,
                 isPickingLocation, detail>>

\* The auth modal's close button (onClose); its cancel button is disabled
\* while isLoggingIn, the close button is not.
CloseAuthModal ==
  /\ ~MicrotaskPending
  /\ showAuthModal
  /\ showAuthModal' = FALSE
  /\ last' = Other
  /\ UNCHANGED <<store, calls, nextId, started, memories, viewState,
                 isLoading, isAuthenticated, isLoggingIn, showEditorModal,
                 editorData, isPickingLocation, detail>>

\* The page has mounted: the effect has called checkSession and registered
\* the auth listener.
InitAuth ==
  /\ configured \in BOOLEAN
  /\ remote = {}
  /\ blob = AbsentBlob
  /\ notifs = 0
  /\ nextId = 1
  /\ started = 0
  /\ calls = <<checkSession("checkSession")>>
  /\ memories = <<>>
  /\ viewState = MapView
  /\ isLoading = FALSE
  /\ isAuthenticated = FALSE
  /\ isLoggingIn = FALSE
  /\ showAuthModal = FALSE
  /\ showEditorModal = FALSE
  /\ editorData = NoEditor
  /\ isPickingLocation = FALSE
  /\ last = Other
  /\ DetailIdle

NextAuth ==
  \/ \E i \in DOMAIN calls : Serve(i)
  \/ \E i \in DOMAIN calls : CheckSessionDone(i)
  \/ AuthStateChange
  \/ OpenAuthModal
  \/ CloseAuthModal
  \/ HandleLogin
  \/ \E i \in DOMAIN calls : LoginDone(i)
  \/ HandleLogout
  \/ \E i \in DOMAIN calls : LogoutDone(i)

SpecAuth == InitAuth /\ [][NextAuth]_vars

\* ------------------------------------------------------- the search filter
\* Strings are sequences of characters; the characters of the search box and
\* of the records' texts.
Chars == {"a", "A", "b", " "}
MaxQuery == 2
Queries == UNION {[1..n -> Chars] : n \in 0..MaxQuery}
Texts == {<<>>, <<"A">>, <<"a", "b">>, <<"b", " ">>, <<"A", "b">>}

\* A conversion that keeps the case.
toLowerCaseKeep(str) == str

\* String.prototype.toLowerCase
toLowerCase(str) == [i \in DOMAIN str |-> IF str[i] = "A" THEN "a" ELSE str[i]]

\* String.prototype.includes
includes(str, q) ==
  \E i \in 0..(Len(str) - Len(q)) : SubSeq(str, i + 1, i + Len(q)) = q

RECURSIVE trim(_)
\* String.prototype.trim
trim(str) ==
  IF str = <<>> THEN <<>>
  ELSE IF Head(str) = " " THEN trim(Tail(str))
  ELSE IF str[Len(str)] = " " THEN trim(SubSeq(str, 1, Len(str) - 1))
  ELSE str

\* filteredMemories (useMemo over memories and searchQuery)
filteredMemories ==
  IF trim(searchQuery) = <<>> THEN memories
  ELSE LET lowerQuery == toLowerCase(searchQuery)
       IN SelectSeqBy(memories,
            {m \in Range(memories) :
               \/ includes(toLowerCase(m.locationName), lowerQuery)
               \/ includes(toLowerCase(m.description), lowerQuery)})

\* The records searched: two ids, a name and a description each.
SearchMemory(id, name, description) ==
  [id |-> id, lat |-> Num(1), lng |-> Num(1), locationName |-> name,
   description |-> description, createdAt |-> id]

SearchSets ==
  {<<>>}
    \cup {<<SearchMemory(1, n, d)>> : n \in Texts, d \in Texts}
    \cup {<<SearchMemory(i, n, <<>>), SearchMemory(3 - i, <<"b">>, d)>> :
            i \in {1, 2}, n \in Texts, d \in Texts}

\* The search box's onChange: setSearchQuery(e.target.value)
HandleSearchInput ==
  /\ \E q \in Queries : searchQuery' = q
  /\ last' = [op |-> "search", c |-> NoCall]
  /\ UNCHANGED <<store, calls, nextId, started, app, pointer,
                 isEditingPosition, newPosition>>

InitSearch ==
  /\ configured = FALSE
  /\ remote = {}
  /\ blob = AbsentBlob
  /\ notifs = 0
  /\ nextId = 1
  /\ started = 0
  /\ calls = <<>>
  /\ memories \in SearchSets
  /\ viewState = MapView
  /\ isLoading = FALSE
  /\ isAuthenticated = FALSE
  /\ isLoggingIn = FALSE
  /\ showAuthModal = FALSE
  /\ showEditorModal = FALSE
  /\ editorData = NoEditor
  /\ isPickingLocation = FALSE
  /\ last = Other
  /\ DetailIdle

NextSearch == HandleSearchInput

SpecSearch == InitSearch /\ [][NextSearch]_vars

\* ------------------------------------------------------------- properties
\* The step calls adapter function fn: a call of it joins the calls in
\* flight.
Invoked(fn) == Len(calls') = Len(calls) + 1 /\ calls'[Len(calls')].fn = fn
\* The call the step has made.
NewestCall == calls'[Len(calls')]

RemoteIds == {r.id : r \in remote}
LocalIds == Ids(getLocalMemories(blob))

\* C1: handleDeleteMemory removes the record from the in-memory set and
\* switches the view to MAP only when deleteMemory returned true.  A declined
\* confirmation calls nothing and changes neither store; calling deleteMemory
\* changes neither the in-memory set nor the view; when deleteMemory returned
\* false or threw, the completion leaves the in-memory set and the view as
\* they were.
C1_DeleteGated ==
  [][ /\ (last'.op = "DeleteDeclined" =>
            UNCHANGED <<calls, remote, blob, memories, viewState>>)
      /\ (Invoked("deleteMemory") => UNCHANGED <<memories, viewState>>)
      /\ (last'.op = "DeleteDone" =>
            IF last'.c.ret = RetBool(TRUE)
            THEN /\ \A m \in Range(memories') : m.id # last'.c.arg.id
                 /\ memories' = SelectSeqBy(memories,
                      {m \in Range(memories) : m.id # last'.c.arg.id})
                 /\ viewState' = MapView
            ELSE UNCHANGED <<memories, viewState>>) ]_vars

\* C1, its case: deleteMemory returned false, and the record is still in the
\* in-memory set with its detail view open.
C1_Witness ==
  /\ last.op = "DeleteDone"
  /\ last.c.ret = RetBool(FALSE)
  /\ last.c.arg.id \in Ids(memories)
  /\ viewState = DetailView(last.c.arg.id)

\* C2: a save with no existing record constructs a record with a fresh id
\* and a fresh createdAt, and once addMemory has returned that record is
\* appended to the in-memory set, whatever the insert's outcome; after a
\* failed remote insert the record is in the in-memory set and not in the
\* remote table.
C2_OptimisticAppend ==
  [][ /\ (Invoked("addMemory") /\ NewestCall.k = "handleSaveMemory" =>
            /\ NewestCall.arg.id # NoId
            /\ NewestCall.arg.id \notin
                 Ids(memories) \cup RemoteIds \cup LocalIds
                   \cup {calls[i].arg.id : i \in DOMAIN calls}
            /\ \A m \in Range(memories) \cup remote :
                 NewestCall.arg.createdAt > m.createdAt)
      /\ (last'.op = "SaveDone" /\ last'.c.fn = "addMemory"
            /\ last'.c.ret.kind # "throw" =>
            /\ memories' = Append(memories, last'.c.arg)
            /\ (last'.c.answer = "error" =>
                  last'.c.arg.id \notin {r.id : r \in remote'})) ]_vars

\* C2, its case: the remote insert failed, and the record is in the in-memory
\* set and not in the remote table.
C2_Witness ==
  /\ last.op = "SaveDone"
  /\ last.c.fn = "addMemory"
  /\ last.c.answer = "error"
  /\ last.c.arg \in Range(memories)
  /\ last.c.arg.id \notin RemoteIds

\* C3: the record an edit saves carries the id and the createdAt of the
\* record opened for editing; once updateMemory has returned, whatever its
\* outcome, the save replaces in the in-memory set exactly the records with
\* that id and leaves the others and the length as they were; and no step
\* changes the createdAt shown for an id.
C3_EditPreservesIdentity ==
  [][ /\ (Invoked("updateMemory") /\ NewestCall.k = "handleSaveMemory" =>
            /\ editorData.hasInitial
            /\ NewestCall.arg.id = editorData.initial.id
            /\ NewestCall.arg.createdAt = editorData.initial.createdAt)
      /\ (last'.op = "SaveDone" /\ last'.c.fn = "updateMemory"
            /\ last'.c.ret.kind # "throw" =>
            /\ Len(memories') = Len(memories)
            /\ \A j \in DOMAIN memories :
                 memories'[j] = IF memories[j].id = last'.c.arg.id
                                THEN last'.c.arg ELSE memories[j])
      /\ \A m \in Range(memories), n \in Range(memories') :
           m.id = n.id => m.createdAt = n.createdAt ]_vars

\* C3, its case: an edit of the stored record was saved, the remote update
\* failed, and the edited record is in the in-memory set under the same id
\* and createdAt.
C3_Witness ==
  /\ last.op = "SaveDone"
  /\ last.c.fn = "updateMemory"
  /\ last.c.answer = "error"
  /\ last.c.arg = [Seed EXCEPT !.locationName = "B"]
  /\ memories = <<last.c.arg>>

\* C4: when a fetchMemories call completes, the in-memory set is exactly the
\* sequence getMemories returned.
C4_RefetchAuthoritative ==
  (last.op = "FetchDone" /\ last.c.ret.kind = "list") =>
    memories = last.c.ret.list

\* C4, its case: a created record was appended to the in-memory set (the save
\* completed and closed the editor), and a refetch that completed afterwards
\* has dropped it.
C4_Witness ==
  /\ last.op = "FetchDone"
  /\ last.c.ret.kind = "list"
  /\ nextId > 1
  /\ calls = <<>>
  /\ editorData = NoEditor
  /\ ~showEditorModal
  /\ Ids(memories) \cap (1..nextId) = {}

C6_TrueOnlyWhenDeleted ==
  (last.op = "Return" /\ last.c.fn = "deleteMemory") =>
    IF configured
    THEN last.c.ret.kind = "boolean" => last.c.ret.b = (last.c.answer = "ok")
    ELSE last.c.ret = RetBool(TRUE) => last.c.arg.id \notin LocalIds

\* A record addMemory / updateMemory reject: lat or lng is not a number or
\* is NaN, or the id is missing.
Invalid(m) ==
  \/ m.lat.t \in {"NaN", "null"}
  \/ m.lng.t \in {"NaN", "null"}
  \/ m.id = NoId

\* C7: addMemory and updateMemory called with an invalid record send no
\* request and write nothing: the call settles at once without an alert, and
\* the remote table and the blob are unchanged; no invalid record is ever in
\* a request.
C7_InvalidNotPersisted ==
  [][ /\ \A fn \in {"addMemory", "updateMemory"} :
           (Invoked(fn) /\ Invalid(NewestCall.arg)) =>
             /\ NewestCall.phase = "resolved"
             /\ NewestCall.alert = "none"
             /\ blob' = blob
             /\ remote' = remote
      /\ \A i \in DOMAIN calls' :
           (calls'[i].fn \in {"addMemory", "updateMemory"}
              /\ Invalid(calls'[i].arg)) => calls'[i].phase = "resolved" ]_vars

\* C7, its case: updateMemory was called with an invalid record and has
\* returned, with a record of that id in a store.
C7_Witness ==
  /\ last.op = "Return"
  /\ last.c.fn = "updateMemory"
  /\ Invalid(last.c.arg)
  /\ last.c.arg.id \in RemoteIds \cup LocalIds

\* C8, as claimed: every record in the in-memory set is valid: lat and lng
\* are finite numbers and the id is not empty.
C8_MemoriesValid ==
  \A m \in Range(memories) :
    isFinite(m.lat) /\ isFinite(m.lng) /\ m.id # NoId

\* C9, as claimed: the list getMemories returns is ordered by createdAt
\* descending.
C9_SortedDescending ==
  (last.op = "Return" /\ last.c.fn = "getMemories"
     /\ last.c.ret.kind = "list") =>
    \A i, j \in DOMAIN last.c.ret.list :
      i < j => last.c.ret.list[i].createdAt >= last.c.ret.list[j].createdAt

C11_BackendFixed ==
  [][ /\ configured' = configured
      /\ (configured => blob' = blob)
      /\ (~configured =>
            /\ remote' = remote
            /\ \A i \in DOMAIN calls' : calls'[i].phase = "resolved") ]_vars

C13_LocalRoundTrip ==
  (last.op = "getLocalMemories" /\ last.c.fn = "saveLocalMemories"
     /\ last.c.alert = "none"
     /\ \A m \in Range(last.c.data) : isValidMemory(m)) =>
    last.c.ret.list = last.c.data

\* What getLocalMemories has just returned: to its caller, or through
\* getMemories in a session without remote.
LocalRead ==
  \/ last.op = "getLocalMemories"
  \/ last.op = "Return" /\ last.c.fn = "getMemories" /\ ~configured

\* C14, as claimed: getLocalMemories returns a sequence, with no record in
\* it whose lat or lng is NaN or not a number or whose id is missing; the
\* sequence is empty when the blob is absent, does not parse or is no array.
C14_LocalReadFiltered ==
  LocalRead =>
    /\ last.c.ret.kind = "list"
    /\ \A m \in Range(last.c.ret.list) : ~Invalid(m)
    /\ (blob.kind # "array" => last.c.ret.list = <<>>)

\* C15, as claimed: the longitude the drag end delivers lies in (-180, 180];
\* 190 gives -170, -200 gives 160 and 180 gives 180.
C15_DragendRange ==
  last.op = "dragend" =>
    /\ newPosition.lng.t = "number"
    /\ newPosition.lng.v > 0 - 180
    /\ newPosition.lng.v <= 180
    /\ (last.c.arg.lng = Num(190) => newPosition.lng = Num(0 - 170))
    /\ (last.c.arg.lng = Num(0 - 200) => newPosition.lng = Num(160))
    /\ (last.c.arg.lng = Num(180) => newPosition.lng = Num(180))

\* C16, as claimed: for the same raw longitude the right click (Leaflet's
\* wrap) and the drag end (the modular formula) deliver the same longitude.
C16_CapturesAgree ==
  [][ /\ (last'.op = "dragend" =>
            newPosition'.lng = contextmenuWrappedLng(last'.c.arg.lng))
      /\ (last'.op = "contextmenu" =>
            editorData'.lng = dragendWrappedLng(last'.c.arg.lng)) ]_vars

\* C17: a marker let go where it is displayed after a drag is delivered at
\* the longitude it had: the normalization applied to its own result returns
\* that result.
C17_DragendIdempotent ==
  [][ (last'.op = "dragend" /\ ~newPosition.isNull
         /\ last'.c.arg.lng = newPosition.lng) =>
        newPosition'.lng = newPosition.lng ]_vars

\* C17, its case: the marker was dragged to a longitude outside the range,
\* delivered wrapped, and let go again where it was displayed.
C17_Witness ==
  /\ last.op = "dragend"
  /\ ~newPosition.isNull
  /\ last.c.arg.lng = newPosition.lng
  /\ pointer.lng # newPosition.lng
  /\ pointer.lng.v > 180

\* C18, as claimed: each coordinate validity check returns true exactly when
\* lat and lng are both finite numbers.
C18_ValidIffFinite ==
  last.op \in {"isValidLatLng", "isValidMemory", "isValidCoord"} =>
    last.c.ret.b = (isFinite(last.c.arg.lat) /\ isFinite(last.c.arg.lng))

\* C19, as claimed: a map selection made while picking a location for an
\* existing record clears picking mode and reopens the editor for the same
\* record with the selected coordinates, and a save of an existing record
\* hands updateMemory the editor's coordinates (after a pick: the selected
\* ones, not the record's previous ones).
C19_ChangeLocationPersists ==
  [][ /\ (last'.op = "contextmenu" /\ isPickingLocation /\ ~editorData.isNull
            /\ editorData.hasInitial =>
            /\ ~isPickingLocation'
            /\ showEditorModal'
            /\ editorData'.hasInitial
            /\ editorData'.initial = editorData.initial
            /\ editorData'.lat = last'.c.arg.lat
            /\ editorData'.lng = last'.c.arg.lng)
      /\ (Invoked("updateMemory") /\ NewestCall.k = "handleSaveMemory" =>
            /\ NewestCall.arg.id = editorData.initial.id
            /\ NewestCall.arg.lat = editorData.lat
            /\ NewestCall.arg.lng = editorData.lng) ]_vars

C21_AuthTransitions ==
  [][ /\ (~isAuthenticated /\ isAuthenticated' =>
            \/ last'.op = "LoginDone" /\ last'.c.ret.b
            \/ last'.op = "CheckSessionDone" /\ last'.c.ret.b
            \/ last'.op = "AuthStateChange" /\ last'.c.ret.b)
      /\ (isAuthenticated /\ ~isAuthenticated' =>
            \/ last'.op = "LogoutDone"
            \/ last'.op = "AuthStateChange" /\ ~last'.c.ret.b)
      /\ (last'.op = "LoginDone" /\ ~last'.c.ret.b =>
            UNCHANGED isAuthenticated) ]_vars

\* C21, its case: a configured session was signed in, the user logged out,
\* signOut returned and the logout left the session anonymous.
C21_Witness ==
  /\ configured
  /\ last.op = "LogoutDone"
  /\ last.c.ret.kind = "undefined"
  /\ ~isAuthenticated

\* C22, as claimed: while a call made by fetchMemories, handleSaveMemory or
\* handleDeleteMemory is in flight isLoading is true, and while a call made
\* by handleLogin is in flight isLoggingIn is true.
C22_InFlightShown ==
  /\ (\E i \in DOMAIN calls :
        calls[i].k \in {"fetchMemories", "handleSaveMemory",
                        "handleDeleteMemory"}) => isLoading
  /\ (\E i \in DOMAIN calls : calls[i].k = "handleLogin") => isLoggingIn

\* C23, as claimed: at most one call made by handleLogin and at most one
\* call made by handleSaveMemory is in flight at any time.
C23_NoDuplicateSubmission ==
  /\ Cardinality({i \in DOMAIN calls : calls[i].k = "handleLogin"}) <= 1
  /\ Cardinality({i \in DOMAIN calls : calls[i].k = "handleSaveMemory"}) <= 1

\* C24, as claimed: when the adapter call of fetchMemories, handleSaveMemory
\* or handleDeleteMemory has rejected, the handler's completion leaves
\* isLoading false, and the completion of handleLogin leaves isLoggingIn
\* false.
C24_RejectionContained ==
  /\ (last.op \in {"FetchDone", "SaveDone", "DeleteDone"}
        /\ last.c.ret.kind = "throw" => ~isLoading)
  /\ (last.op = "LoginDone" => ~isLoggingIn)

\* The two characters are the same letter, whatever their case.
SameLetter(a, b) == a = b \/ {a, b} = {"a", "A"}
\* str contains q as a substring, case ignored.
ContainsIgnoringCase(str, q) ==
  \E i \in 0..(Len(str) - Len(q)) :
    \A k \in 1..Len(q) : SameLetter(str[i + k], q[k])
IsBlank(q) == \A k \in DOMAIN q : q[k] = " "
MatchesQuery(m) ==
  \/ ContainsIgnoringCase(m.locationName, searchQuery)
  \/ ContainsIgnoringCase(m.description, searchQuery)
SearchFilterExact ==
  filteredMemories = IF IsBlank(searchQuery) THEN memories
                     ELSE SelectSeq(memories, MatchesQuery)

\* C25: after every change of the search box, filteredMemories is the
\* in-memory sequence restricted, in its order, to the records whose
\* locationName or description contains the query as a substring with case
\* ignored, and the whole sequence when the query is empty or blank; the
\* in-memory set is as it was.
C25_SearchFilter ==
  [][ last'.op = "search" =>
        SearchFilterExact' /\ UNCHANGED memories ]_vars

\* C25, its case: of two records, the query "Ab" keeps the one whose name is
\* "ab" and drops the other.
C25_Witness ==
  /\ last.op = "search"
  /\ searchQuery = <<"A", "b">>
  /\ Len(memories) = 2
  /\ Len(filteredMemories) = 1
  /\ filteredMemories[1].locationName = <<"a", "b">>
  /\ filteredMemories[1].id = 2

\* C26, as claimed: no two records of the in-memory set have the same id.
C26_UniqueIds ==
  \A i, j \in DOMAIN memories : i # j => memories[i].id # memories[j].id

\* C27, as claimed: whenever the view is DETAIL(id), a record with that id is
\* in the in-memory set.
C27_DetailRecordPresent ==
  viewState.type = "DETAIL" => viewState.memoryId \in Ids(memories)

\* C28, as claimed: in remote mode, when no call is in flight and no
\* notification is undelivered, and the step that ended the activity was a
\* refetch that the remote answered or a save that the remote refused, the
\* in-memory set holds exactly the rows of the remote table, each once.
C28_ConvergesToRemote ==
  (/\ configured /\ calls = <<>> /\ notifs = 0
   /\ \/ last.op = "FetchDone" /\ last.c.answer = "ok"
      \/ last.op = "SaveDone" /\ last.c.answer = "error") =>
    /\ Range(memories) = remote
    /\ Len(memories) = Cardinality(remote)

\* C29, as claimed: in local fallback mode, when a fetch, a save or a delete
\* has completed, the in-memory set holds the records of the local blob,
\* each once.
C29_MemoryMatchesBlob ==
  (~configured /\ last.op \in {"FetchDone", "SaveDone", "DeleteDone"}) =>
    /\ Range(memories) = Range(getLocalMemories(blob))
    /\ Len(memories) = Len(getLocalMemories(blob))

\* C30, as claimed: while a location is being picked the editor modal is
\* closed and editorData is not null.
C30_PickingExclusive ==
  isPickingLocation => ~showEditorModal /\ ~editorData.isNull

====
